---- MODULE Spec2Model ----
(***************************************************************************)
(* Model of the OPNsense worker: the time-of-day policy loop (main.py),    *)
(* the schedule evaluator (utils.py), the policy reconciler and the alias  *)
(* operations of the firewall API client (opnsense_client.py).             *)
(*                                                                         *)
(* Timestamps are whole seconds counted from a Monday 00:00:00, so that    *)
(* datetime.weekday() and datetime.time() are computed from them the way   *)
(* the standard library does (Monday = 0 ... Sunday = 6).                  *)
(***************************************************************************)
EXTENDS Integers, Sequences, FiniteSets, TLC

VARIABLES
    OPNSENSE_INSTANCES,      \* config.OPNSENSE_INSTANCES: the configured list
    firewall_policy_states,  \* main(): dict base_url -> last applied state
    last_status_check_time,  \* main(): stamp of the policy timer
    last_report_send_time,   \* main(): stamp of the report timer
    now,                     \* main(): timestamp read at the top of the tick
    desired_policy_state,    \* main(): result of get_firewall_policy_state(now)
    pc,                      \* position of main(): tick, policy, report_check, report, sleep, done
    idx,                     \* position of the running for-loop over the instances
    stopped_by,              \* the except clause that ended the loop, None while it runs
    ticks,                   \* number of loop iterations started
    last_call,               \* history: per instance, its last process_firewall_policy call
    applied,                 \* history: (base_url, state) pairs whose reconfigure returned success
    report_message,          \* main(): the message format_report_message built last
    sends,                   \* history: the send_message calls of the running iteration
    last_ok_notification_time,    \* main-v2 main(): stamp of the last all-clear message
    any_problem_in_any_firewall,  \* main-v2 main(): the flag of the running monitoring cycle
    detected,                \* history: per instance, the health checks that found a problem
    alerted,                 \* history: per instance, the alerts handed to send_message
    health_input,         \* the argument of the last check_firewall_health call
    health_threshold,     \* its threshold
    health                   \* what that call returned or raised

configVars == << OPNSENSE_INSTANCES >>
timerVars == << last_status_check_time, last_report_send_time >>
reportVars == << report_message, sends >>
policyVars == << firewall_policy_states, last_call, applied >>
monitorVars == << last_ok_notification_time, any_problem_in_any_firewall, detected, alerted >>
healthVars == << health_input, health_threshold, health >>
vars == << OPNSENSE_INSTANCES, firewall_policy_states, last_status_check_time,
           last_report_send_time, now, desired_policy_state, pc, idx, stopped_by,
           ticks, last_call, applied, report_message, sends,
           last_ok_notification_time, any_problem_in_any_firewall, detected, alerted,
           health_input, health_threshold, health >>

-----------------------------------------------------------------------------
(* Bounds of the exploration *)

MaxTicks == 3

-----------------------------------------------------------------------------
(* config.py *)

BLOCKED == "BLOQUEADO"
ALLOWED == "LIBERADO"
PolicyState == {BLOCKED, ALLOWED}

\* Python's None
None == "None"

BLOCKED_CONTENT == <<"lista_de_filtrados", "lista_de_teste">>
ALLOWED_CONTENT == <<"lista_de_teste">>

\* datetime.time(h, m): compared field by field (hour, minute, second)
time_obj(h, m) == <<h, m, 0>>

HIGH_PING_THRESHOLD_MS == 50

LUNCH_START_TIME == time_obj(11, 0)
LUNCH_END_TIME == time_obj(13, 0)
SATURDAY_FREE_TIME == time_obj(12, 0)

-----------------------------------------------------------------------------
(* datetime *)

SecondsPerMinute == 60
SecondsPerHour == 3600
SecondsPerDay == 86400

\* datetime.isoweekday(): Monday = 1, Sunday = 7
isoweekday(t) == ((t \div SecondsPerDay) % 7) + 1

\* datetime.weekday(): Monday = 0, Sunday = 6
weekday(t) == (t \div SecondsPerDay) % 7

\* datetime.time(): the time of day of a timestamp
time_of(t) ==
    LET s == t % SecondsPerDay
    IN  << s \div SecondsPerHour, (s % SecondsPerHour) \div SecondsPerMinute, s % SecondsPerMinute >>

\* a < b taken for a <= b
time_le_strict(a, b) ==
    \/ a[1] < b[1]
    \/ a[1] = b[1] /\ a[2] < b[2]
    \/ a[1] = b[1] /\ a[2] = b[2] /\ a[3] < b[3]

\* a <= b and a < b of datetime.time values
time_le(a, b) ==
    \/ a[1] < b[1]
    \/ a[1] = b[1] /\ a[2] < b[2]
    \/ a[1] = b[1] /\ a[2] = b[2] /\ a[3] <= b[3]

\* a <= b taken for a < b
time_lt_or_equal(a, b) == time_le(a, b)

time_lt(a, b) == time_le(a, b) /\ a # b

\* an interval taken in seconds
timedelta_seconds(m) == m

\* timedelta(minutes = m) in seconds
timedelta_minutes(m) == m * SecondsPerMinute

\* the timestamp of day d (0 = the Monday the count starts at) at h:m:s
At(d, h, m, s) == d * SecondsPerDay + h * SecondsPerHour + m * SecondsPerMinute + s

-----------------------------------------------------------------------------
(* utils.get_firewall_policy_state *)

get_firewall_policy_state(t) ==
    LET current_time == time_of(t)
        wd == weekday(t)
    IN  IF wd = 6 THEN ALLOWED
        ELSE IF wd = 5
             THEN (IF time_le(SATURDAY_FREE_TIME, current_time) THEN ALLOWED ELSE BLOCKED)
        ELSE IF 0 <= wd /\ wd < 5
             THEN (IF time_le(LUNCH_START_TIME, current_time) /\ time_lt(current_time, LUNCH_END_TIME)
                   THEN ALLOWED ELSE BLOCKED)
        ELSE BLOCKED

-----------------------------------------------------------------------------
(* Python values *)

\* a dict with no key
EmptyDict == [k \in {} |-> None]

\* dict.get(k): the value, or None when the key is absent
Get(d, k) == IF k \in DOMAIN d THEN d[k] ELSE None

\* an assignment that is lost
Put_lost(d, k, v) == d

\* a write that sets every entry of the dict
Put_every_key(d, k, v) == [j \in DOMAIN d \cup {k} |-> v]

\* d[k] = v
Put(d, k, v) == [j \in DOMAIN d \cup {k} |-> IF j = k THEN v ELSE d[j]]

\* no message has been built yet
NoMessage == [kind |-> "None"]

\* the outcome of a call: a returned value or a raised exception
Return(v) == [exc |-> None, value |-> v]
Raise(e) == [exc |-> e, value |-> None]

-----------------------------------------------------------------------------
(* opnsense_client.OpnSenseApiClient *)

\* What _make_request gives its caller: the decoded JSON body (a dict or a
\* list), None after an HTTP error, a connection error or a body that is not
\* JSON, or a KeyboardInterrupt, which "except Exception" does not catch.
NoResponse == [kind |-> "None"]
Interrupted == [kind |-> "KeyboardInterrupt"]
JsonDict(body) == [kind |-> "dict", body |-> body]
JsonList(items) == [kind |-> "list", items |-> items]

\* bool(response)
Truthy(r) ==
    \/ r.kind = "dict" /\ DOMAIN r.body # {}
    \/ r.kind = "list" /\ Len(r.items) > 0

\* a configured url: its text up to the trailing slashes, and their number
Url(stem, slashes) == [stem |-> stem, slashes |-> slashes]

\* url.rstrip('/')
rstrip_slash(url) == Url(url.stem, 0)

\* __init__: the client of an instance
OpnSenseApiClient(instance_config) ==
    [base_url |-> rstrip_slash(instance_config.url).stem,
     friendly_name |-> instance_config.friendly_name]

\* a lookup that takes the first row for the alias, whatever its name
scan_rows_first_row(rows, alias_name, i) ==
    IF i > Len(rows) THEN Return(None)
    ELSE IF "uuid" \in DOMAIN rows[i] THEN Return(rows[i].uuid) ELSE Raise("KeyError")

\* the loop of find_alias_uuid_by_name over data['rows'], from row i on
RECURSIVE scan_rows(_, _, _)
scan_rows(rows, alias_name, i) ==
    IF i > Len(rows) THEN Return(None)
    ELSE IF Get(rows[i], "name") = alias_name
         THEN (IF "uuid" \in DOMAIN rows[i] THEN Return(rows[i].uuid) ELSE Raise("KeyError"))
         ELSE scan_rows(rows, alias_name, i + 1)

\* a lookup that raises when it finds no alias of that name
find_alias_uuid_by_name_raising(data, alias_name) ==
    IF data = Interrupted THEN Raise("KeyboardInterrupt")
    ELSE IF Truthy(data) /\ data.kind = "dict" /\ "rows" \in DOMAIN data.body
              /\ scan_rows(data.body.rows, alias_name, 1) # Return(None)
         THEN scan_rows(data.body.rows, alias_name, 1)
         ELSE Raise("AliasNotFound")

find_alias_uuid_by_name(data, alias_name) ==
    IF data = Interrupted THEN Raise("KeyboardInterrupt")
    ELSE IF Truthy(data) /\ data.kind = "dict" /\ "rows" \in DOMAIN data.body
         THEN scan_rows(data.body.rows, alias_name, 1)
         ELSE Return(None)

\* a push that takes any answer for "saved"
update_alias_content_any_answer(response) ==
    IF response = Interrupted THEN Raise("KeyboardInterrupt")
    ELSE IF ~Truthy(response) THEN Return(FALSE)
    ELSE Return(TRUE)

update_alias_content(response) ==
    IF response = Interrupted THEN Raise("KeyboardInterrupt")
    ELSE IF ~Truthy(response) THEN Return(FALSE)
    ELSE IF response.kind = "list" THEN Raise("AttributeError")
    ELSE Return(Get(response.body, "result") = "saved")

\* an apply whose request swallows the interrupt as it does an error
apply_firewall_changes_bare_except(response) ==
    IF response = Interrupted \/ ~Truthy(response) THEN Return(FALSE)
    ELSE IF response.kind = "list" THEN Raise("AttributeError")
    ELSE Return(Get(response.body, "status") = "ok")

\* an apply that takes any answer, and no answer, for "ok"
apply_firewall_changes_any_answer(response) ==
    IF response = Interrupted THEN Raise("KeyboardInterrupt")
    ELSE Return(TRUE)

apply_firewall_changes(response) ==
    IF response = Interrupted THEN Raise("KeyboardInterrupt")
    ELSE IF ~Truthy(response) THEN Return(FALSE)
    ELSE IF response.kind = "list" THEN Raise("AttributeError")
    ELSE Return(Get(response.body, "status") = "ok")

-----------------------------------------------------------------------------
(* main.process_firewall_policy *)

\* "if not alias_uuid"
NoUuid(v) == v = None \/ v = ""

\* the last line a call logs (line 32, 41, 43, 45, 47)
LogNoUuid == "WARNING Nao foi possivel prosseguir sem o UUID do alias"
LogUpdated == "INFO Politica de firewall atualizada com sucesso"
LogApplyFailed == "ERROR Falha ao APLICAR as novas regras do alias"
LogPushFailed == "ERROR Falha ao ATUALIZAR o conteudo do alias"
LogNoChange == "INFO Nenhuma mudanca de politica necessaria"

\* The record of one call: the state it read, the remote calls it issued in
\* order (each with the response it got and what the client made of it), the
\* line it logged last, the exception it let through and the dict as the
\* call leaves it. The function itself returns None on every path.
CallRecord(url, desired_state, current_state, calls, log, exc, states) ==
    [base_url |-> url, desired_state |-> desired_state, current_state |-> current_state,
     calls |-> calls, log |-> log, exc |-> exc, states |-> states]

\* a comparison that never finds the memory up to date
state_changed_always(desired_state, current_state) == TRUE

\* line 27: "if desired_state != current_state"
state_changed(desired_state, current_state) == desired_state # current_state

\* rs: the responses the appliance gives to searchItem, setItem and
\* reconfigure when they are requested, and in rs.interrupt the client call
\* after whose return a KeyboardInterrupt is raised in the function, if any
process_firewall_policy(client, alias_name, desired_state, current_states, rs) ==
    LET current_state == Get(current_states, client.base_url)
        found == find_alias_uuid_by_name(rs.searchItem, alias_name)
        c1 == << [op |-> "find_alias_uuid_by_name", response |-> rs.searchItem,
                  result |-> found] >>
        content_to_apply == IF desired_state = ALLOWED THEN ALLOWED_CONTENT ELSE BLOCKED_CONTENT
        pushed == update_alias_content(rs.setItem)
        c2 == Append(c1, [op |-> "update_alias_content", uuid |-> found.value,
                          content |-> content_to_apply, response |-> rs.setItem,
                          result |-> pushed])
        done == apply_firewall_changes(rs.reconfigure)
        c3 == Append(c2, [op |-> "apply_firewall_changes", response |-> rs.reconfigure,
                          result |-> done])
        Rec(calls, log, exc, states) ==
            CallRecord(client.base_url, desired_state, current_state, calls, log, exc, states)
    IN  IF state_changed(desired_state, current_state)
        THEN IF found.exc # None THEN Rec(c1, None, found.exc, current_states)
             ELSE IF NoUuid(found.value) THEN Rec(c1, LogNoUuid, None, current_states)
             ELSE IF rs.interrupt = "find_alias_uuid_by_name"
                  THEN Rec(c1, None, "KeyboardInterrupt", current_states)
             ELSE IF pushed.exc # None THEN Rec(c2, None, pushed.exc, current_states)
             ELSE IF pushed.value
                  THEN IF rs.interrupt = "update_alias_content"
                       THEN Rec(c2, None, "KeyboardInterrupt", current_states)
                       ELSE IF done.exc # None THEN Rec(c3, None, done.exc, current_states)
                       ELSE IF done.value
                            THEN IF rs.interrupt = "apply_firewall_changes"
                                 THEN Rec(c3, None, "KeyboardInterrupt", current_states)
                                 ELSE Rec(c3, LogUpdated, None,
                                          Put(current_states, client.base_url, desired_state))
                            ELSE Rec(c3, LogApplyFailed, None, current_states)
                  ELSE Rec(c2, LogPushFailed, None, current_states)
        ELSE Rec(<< >>, LogNoChange, None, current_states)

-----------------------------------------------------------------------------
(* The configurations and the environment explored *)

AliasName == "filtro_dns_ativo"
OtherAliasName == "filtro_dns_visitantes"

\* config.OPNSENSE_INSTANCES: the entry in use, the entry commented out, and
\* a second alias managed on the first appliance (its url written with the
\* trailing slash)
InstanceFva ==
    [url |-> Url("https://guard-fva", 0), alias_name |-> AliasName, friendly_name |-> "Faz. Vo Amantino"]
InstanceEdi ==
    [url |-> Url("https://guard-edi", 0), alias_name |-> AliasName, friendly_name |-> "Edificio Lodi"]
InstanceFvaVisitors ==
    [url |-> Url("https://guard-fva", 1), alias_name |-> OtherAliasName, friendly_name |-> "Faz. Vo Amantino (visitantes)"]

Configurations ==
    { << InstanceFva >>, << InstanceEdi, InstanceFva >>, << InstanceFva, InstanceFvaVisitors >> }

\* rows of firewall/alias/searchItem
AliasRow(name) == [name |-> name, uuid |-> "uuid-of-" \o name]
RowWithoutUuid(name) == [name |-> name]
RowWithEmptyUuid(name) == [name |-> name, uuid |-> ""]
UnrelatedRow == [name |-> "bogons", uuid |-> "uuid-of-bogons"]

SearchItemResponses(alias_name) ==
    { NoResponse, Interrupted,
      JsonDict([status |-> "error"]),
      JsonDict([rows |-> << UnrelatedRow >>]),
      JsonDict([rows |-> << UnrelatedRow, AliasRow(alias_name) >>]),
      JsonDict([rows |-> << RowWithoutUuid(alias_name) >>]),
      JsonDict([rows |-> << RowWithEmptyUuid(alias_name), AliasRow(alias_name) >>]) }

SetItemResponses ==
    { NoResponse, Interrupted,
      JsonDict([result |-> "saved"]),
      JsonDict([result |-> "failed"]) }

ReconfigureResponses ==
    { NoResponse, Interrupted,
      JsonDict([status |-> "ok"]),
      JsonDict([status |-> "failed"]) }

\* A request that is not sent has no response: the responses to the requests
\* a call with these arguments can send, NoResponse standing for the others,
\* and the returns of a client call after which the call can be interrupted.
PolicyResponses(alias_name, desired_state, current_state) ==
    LET Lookup == IF state_changed(desired_state, current_state)
                  THEN SearchItemResponses(alias_name) ELSE { NoResponse }
        Push(s) == LET found == find_alias_uuid_by_name(s, alias_name)
                   IN  IF state_changed(desired_state, current_state)
                          /\ found.exc = None /\ ~NoUuid(found.value)
                       THEN SetItemResponses ELSE { NoResponse }
        Apply(p) == IF update_alias_content(p) = Return(TRUE)
                    THEN ReconfigureResponses ELSE { NoResponse }
        Undisturbed ==
            UNION { UNION { { [searchItem |-> s, setItem |-> p, reconfigure |-> a,
                               interrupt |-> None] : a \in Apply(p) }
                            : p \in Push(s) }
                    : s \in Lookup }
        AfterLookup ==
            { [searchItem |-> s, setItem |-> NoResponse, reconfigure |-> NoResponse,
               interrupt |-> "find_alias_uuid_by_name"] :
                s \in { x \in Lookup : Push(x) # { NoResponse } } }
        AfterPush ==
            { [rs EXCEPT !.reconfigure = NoResponse, !.interrupt = "update_alias_content"] :
                rs \in { u \in Undisturbed : update_alias_content(u.setItem) = Return(TRUE) } }
        AfterApply ==
            { [rs EXCEPT !.interrupt = "apply_firewall_changes"] :
                rs \in { u \in Undisturbed : /\ update_alias_content(u.setItem) = Return(TRUE)
                                               /\ apply_firewall_changes(u.reconfigure) = Return(TRUE) } }
    IN  Undisturbed \cup AfterLookup \cup AfterPush \cup AfterApply

\* the instants datetime.now() gives at start
StartTimes ==
    { At(0, 10, 58, 0), At(5, 11, 59, 0) }

\* seconds from one reading of datetime.now() at the top of the loop to the
\* next: the sleep of 60 seconds and the time the tick's work took
TickDelays == { 60, 7200 }

-----------------------------------------------------------------------------
(* main.main *)

STATUS_CHECK_INTERVAL == timedelta_minutes(1)
REPORT_SEND_INTERVAL == timedelta_minutes(45)

NoCall == [log |-> "no call"]

\* what the history keeps of a call
Trace(r) ==
    [base_url |-> r.base_url, desired_state |-> r.desired_state,
     current_state |-> r.current_state, calls |-> r.calls, log |-> r.log, exc |-> r.exc,
     state_after |-> IF r.base_url \in DOMAIN r.states THEN r.states[r.base_url] ELSE None]

NumInstances == Len(OPNSENSE_INSTANCES)

Init ==
    /\ OPNSENSE_INSTANCES \in Configurations
    /\ now \in StartTimes
    /\ last_status_check_time = now - STATUS_CHECK_INTERVAL
    /\ last_report_send_time = now - REPORT_SEND_INTERVAL
    /\ firewall_policy_states = EmptyDict
    /\ desired_policy_state = None
    /\ pc = "tick"
    /\ idx = 0
    /\ stopped_by = None
    /\ ticks = 0
    /\ last_call = [i \in 1..NumInstances |-> NoCall]
    /\ applied = {}
    /\ report_message = NoMessage
    /\ sends = << >>
    /\ last_ok_notification_time = now
    /\ any_problem_in_any_firewall = FALSE
    /\ detected = [i \in 1..Len(OPNSENSE_INSTANCES) |-> 0]
    /\ alerted = [i \in 1..Len(OPNSENSE_INSTANCES) |-> 0]
    /\ health_input = None
    /\ health_threshold = HIGH_PING_THRESHOLD_MS
    /\ health = None

\* line 76 to 83: read the clock, decide whether the policy timer is due
Tick ==
    /\ pc = "tick"
    /\ ticks < MaxTicks
    /\ \E d \in (IF ticks = 0 THEN {0} ELSE TickDelays) : now' = now + d
    /\ ticks' = ticks + 1
    /\ IF now' - last_status_check_time >= STATUS_CHECK_INTERVAL
       THEN /\ desired_policy_state' = get_firewall_policy_state(now')
            /\ idx' = 1
            /\ pc' = "policy"
       ELSE /\ pc' = "report_check"
            /\ UNCHANGED << desired_policy_state, idx >>
    /\ UNCHANGED << monitorVars, healthVars, configVars, timerVars, policyVars, stopped_by, reportVars >>

\* the except clause an exception leaving the loop body reaches
ExceptClause(exc) == IF exc = "KeyboardInterrupt" THEN "KeyboardInterrupt" ELSE "Exception"

\* line 85 to 101: one instance of the policy iteration
PolicyInstance ==
    /\ pc = "policy"
    /\ idx <= NumInstances
    /\ LET instance_config == OPNSENSE_INSTANCES[idx]
           client == OpnSenseApiClient(instance_config)
       IN  \E rs \in PolicyResponses(instance_config.alias_name, desired_policy_state,
                                      Get(firewall_policy_states, client.base_url)) :
             LET r == process_firewall_policy(client, instance_config.alias_name,
                                              desired_policy_state, firewall_policy_states, rs)
                 succeeded == { i \in 1..Len(r.calls) :
                                  /\ r.calls[i].op = "apply_firewall_changes"
                                  /\ r.calls[i].response = JsonDict([status |-> "ok"]) }
             IN  /\ firewall_policy_states' = r.states
                 /\ last_call' = [last_call EXCEPT ![idx] = Trace(r)]
                 /\ applied' = IF succeeded # {}
                               THEN applied \cup { << client.base_url, desired_policy_state >> }
                               ELSE applied
                 /\ IF r.exc # None
                    THEN /\ pc' = "done"
                         /\ stopped_by' = ExceptClause(r.exc)
                         /\ idx' = idx
                    ELSE /\ idx' = idx + 1
                         /\ UNCHANGED << pc, stopped_by >>
    /\ UNCHANGED << monitorVars, healthVars, configVars, timerVars, now, desired_policy_state, ticks, reportVars >>

\* line 104: the iteration is over, stamp the policy timer
PolicyDone ==
    /\ pc = "policy"
    /\ idx > NumInstances
    /\ last_status_check_time' = now
    /\ pc' = "report_check"
    /\ UNCHANGED << monitorVars, healthVars, configVars, last_report_send_time, policyVars, now,
                    desired_policy_state, idx, stopped_by, ticks, reportVars >>

\* line 108: decide whether the report timer is due
ReportCheck ==
    /\ pc = "report_check"
    /\ IF now - last_report_send_time >= REPORT_SEND_INTERVAL
       THEN pc' = "report" /\ idx' = 1 /\ sends' = << >>
       ELSE pc' = "sleep" /\ idx' = idx /\ sends' = sends
    /\ UNCHANGED report_message
    /\ UNCHANGED << monitorVars, healthVars, configVars, timerVars, policyVars, now, desired_policy_state,
                    stopped_by, ticks >>

-----------------------------------------------------------------------------
(* The report iteration: opnsense_client, utils.format_report_message,
   notifier.TelegramNotifier.send_message *)

get_system_information(response) ==
    IF response = Interrupted THEN Raise("KeyboardInterrupt") ELSE Return(response)

\* the header lines are text or, in a body of another shape, values on which
\* "' up ' in line" raises
get_system_activity(raw_data) ==
    IF raw_data = Interrupted THEN Raise("KeyboardInterrupt")
    ELSE IF ~Truthy(raw_data) THEN Return(NoResponse)
    ELSE IF raw_data.kind = "list" THEN Raise("AttributeError")
    ELSE LET headers == IF "headers" \in DOMAIN raw_data.body THEN raw_data.body.headers ELSE << >>
         IN  IF \E i \in 1..Len(headers) : headers[i].kind # "str"
             THEN Raise("TypeError")
             ELSE Return(JsonDict([cpu |-> "N/D", mem |-> "N/D", uptime |-> Len(headers)]))

get_temperatures(response) ==
    IF response = Interrupted THEN Raise("KeyboardInterrupt") ELSE Return(response)

get_traffic_stats(data) ==
    IF data = Interrupted THEN Raise("KeyboardInterrupt")
    ELSE IF ~Truthy(data) THEN Return(NoResponse)
    ELSE IF data.kind = "list" THEN Raise("AttributeError")
    ELSE Return(IF "interfaces" \in DOMAIN data.body THEN data.body.interfaces
                ELSE JsonDict(EmptyDict))

get_gateway_status(response) ==
    IF response = Interrupted THEN Raise("KeyboardInterrupt") ELSE Return(response)

\* a report that does not name its firewall
format_report_message_unnamed(firewall_name, system_info, activity, temperatures, traffic, gateways) ==
    Return([kind |-> "report", firewall_name |-> None])

\* The message is kept as its header (the firewall's name); the sections are
\* built in the order temperature, gateways, traffic, and the first value of
\* an unexpected shape raises.
format_report_message(firewall_name, system_info, activity, temperatures, traffic, gateways) ==
    LET temps == IF Truthy(temperatures) /\ temperatures.kind = "list" THEN temperatures.items ELSE << >>
        temps_raise == \E i \in 1..Len(temps) : temps[i].kind # "dict"
        gws == IF Truthy(gateways) /\ gateways.kind = "dict" /\ "items" \in DOMAIN gateways.body
               THEN gateways.body.items ELSE << >>
        gws_raise == \E i \in 1..Len(gws) :
                        \/ gws[i].kind # "dict"
                        \/ "name" \in DOMAIN gws[i].body /\ gws[i].body.name = None
        has_traffic == Truthy(traffic)
        traffic_raise == has_traffic /\ traffic.kind # "dict"
    IN  IF temps_raise THEN Raise("AttributeError")
        ELSE IF gws_raise THEN Raise("TypeError")
        ELSE IF traffic_raise THEN Raise("AttributeError")
        ELSE Return([kind |-> "report", firewall_name |-> firewall_name])

\* send_message of a message that is not empty: every failure of the request
\* is caught and gives False; a KeyboardInterrupt passes
send_message(message, response) ==
    IF response = Interrupted THEN Raise("KeyboardInterrupt")
    ELSE IF response.kind = "dict"
         THEN Return("ok" \in DOMAIN response.body /\ response.body.ok = TRUE)
         ELSE Return(FALSE)

\* line 123 to 137 for one instance; rs: the responses to the five requests
collect_and_format(client, rs) ==
    LET system_info == get_system_information(rs.system_information)
        activity == get_system_activity(rs.activity)
        temperatures == get_temperatures(rs.temperature)
        traffic == get_traffic_stats(rs.traffic)
        gateways == get_gateway_status(rs.gateway)
    IN  IF system_info.exc # None THEN system_info
        ELSE IF activity.exc # None THEN activity
        ELSE IF temperatures.exc # None THEN temperatures
        ELSE IF traffic.exc # None THEN traffic
        ELSE IF gateways.exc # None THEN gateways
        ELSE format_report_message(client.friendly_name, system_info.value, activity.value,
                                   temperatures.value, traffic.value, gateways.value)

\* responses of the diagnostics and gateway requests
SystemInformationResponses == { NoResponse, JsonDict([name |-> "guard"]), Interrupted }

ActivityResponses ==
    { NoResponse,
      JsonDict([headers |-> << [kind |-> "str", text |-> "up 1+02:03:04"] >>]),
      JsonDict([headers |-> << [kind |-> "int"] >>]),
      JsonList(<< JsonDict([error |-> "denied"]) >>) }

TemperatureResponses ==
    { NoResponse,
      JsonList(<< JsonDict([type |-> "cpu", temperature |-> "45.0"]) >>),
      JsonList(<< [kind |-> "str", text |-> "n/a"] >>) }

TrafficResponses ==
    { NoResponse,
      JsonDict([interfaces |-> JsonDict([wan |-> JsonDict([name |-> "wan"])])]),
      JsonDict([interfaces |-> JsonList(<< JsonDict([name |-> "wan"]) >>)]),
      JsonList(<< JsonDict([name |-> "wan"]) >>) }

Gateway(name, status, delay) == JsonDict([name |-> name, status |-> status, delay |-> delay])

GatewayStatusResponses ==
    { NoResponse,
      JsonDict([items |-> << Gateway("WAN_GW", "online", "10.0ms") >>]),
      JsonDict([items |-> << Gateway("WAN_GW", "offline", "75.3ms") >>]),
      JsonDict([items |-> << Gateway(None, "online", "10.0ms") >>]),
      JsonDict([status |-> "error"]) }

TelegramResponses ==
    { NoResponse, Interrupted, JsonDict([ok |-> TRUE]), JsonDict([ok |-> FALSE]) }

\* The responses to the requests one instance's collection can send: a
\* request after one that raised is not sent.
ReportResponses ==
    LET R2(r1) == IF get_system_information(r1).exc # None THEN { NoResponse } ELSE ActivityResponses
        R3(r2) == IF get_system_activity(r2).exc # None
                  THEN { NoResponse } ELSE TemperatureResponses
        R4(r3) == IF get_temperatures(r3).exc # None THEN { NoResponse } ELSE TrafficResponses
        R5(r4) == IF get_traffic_stats(r4).exc # None THEN { NoResponse } ELSE GatewayStatusResponses
    IN  UNION { UNION { UNION { UNION {
            { [system_information |-> r1, activity |-> r2, temperature |-> r3,
               traffic |-> r4, gateway |-> r5] : r5 \in R5(r4) }
            : r4 \in R4(r3) } : r3 \in R3(r2) } : r2 \in R2(r1) } : r1 \in SystemInformationResponses }

\* line 112 to 137: collect one instance's data and format its report
ReportCollect ==
    /\ pc = "report"
    /\ idx <= NumInstances
    /\ \E out \in { collect_and_format(OpnSenseApiClient(OPNSENSE_INSTANCES[idx]), rs) :
                        rs \in ReportResponses } :
             IF out.exc # None
             THEN /\ pc' = "done"
                  /\ stopped_by' = ExceptClause(out.exc)
                  /\ UNCHANGED report_message
             ELSE /\ pc' = "report_send"
                  /\ report_message' = out.value
                  /\ UNCHANGED stopped_by
    /\ UNCHANGED << monitorVars, healthVars, configVars, timerVars, policyVars, now, desired_policy_state, idx, ticks,
                    sends >>

\* line 139 and 140: send the report, pause, go to the next instance
ReportSend ==
    /\ pc = "report_send"
    /\ \E response \in TelegramResponses :
         LET sent == send_message(report_message, response)
         IN  /\ sends' = Append(sends, [message |-> report_message,
                                        delivered |-> (sent.exc = None /\ sent.value)])
             /\ IF sent.exc # None
                THEN /\ pc' = "done"
                     /\ stopped_by' = ExceptClause(sent.exc)
                     /\ idx' = idx
                ELSE /\ pc' = "report"
                     /\ idx' = idx + 1
                     /\ UNCHANGED stopped_by
    /\ UNCHANGED << monitorVars, healthVars, configVars, timerVars, policyVars, now, desired_policy_state, ticks,
                    report_message >>

\* line 143: the iteration is over, stamp the report timer
ReportDone ==
    /\ pc = "report"
    /\ idx > NumInstances
    /\ last_report_send_time' = now
    /\ pc' = "sleep"
    /\ sends' = << >>
    /\ UNCHANGED << monitorVars, healthVars, configVars, last_status_check_time, policyVars, now,
                    desired_policy_state, idx, stopped_by, ticks, report_message >>

\* line 152: time.sleep(60) returns
Sleep ==
    /\ pc = "sleep"
    /\ pc' = "tick"
    /\ UNCHANGED << monitorVars, healthVars, configVars, timerVars, policyVars, now, desired_policy_state, idx,
                    stopped_by, ticks, reportVars >>

\* line 154: a KeyboardInterrupt delivered between two steps of the loop
KeyboardInterrupt ==
    /\ pc # "done"
    /\ pc' = "done"
    /\ stopped_by' = "KeyboardInterrupt"
    /\ UNCHANGED << monitorVars, healthVars, configVars, timerVars, policyVars, now, desired_policy_state, idx,
                    ticks, reportVars >>

Next ==
    \/ Tick
    \/ PolicyInstance
    \/ PolicyDone
    \/ ReportCheck
    \/ ReportCollect
    \/ ReportSend
    \/ ReportDone
    \/ Sleep
    \/ KeyboardInterrupt

Spec == Init /\ [][Next]_vars

-----------------------------------------------------------------------------
(* The schedule evaluator on its own: get_firewall_policy_state applied to a
   timestamp drawn from the days 0..MaxDay and from the times of day around
   every full hour. *)

MaxDay == 6

ScheduleHours == 0..23
ScheduleMinutes == { 0, 1, 30, 59 }
ScheduleSeconds == { 0, 1, 59 }

ScheduleInit ==
    /\ OPNSENSE_INSTANCES = << InstanceFva >>
    /\ now \in { At(d, h, m, sec) : d \in 0..MaxDay, h \in ScheduleHours,
                                     m \in ScheduleMinutes, sec \in ScheduleSeconds }
    /\ last_status_check_time = now
    /\ last_report_send_time = now
    /\ firewall_policy_states = EmptyDict
    /\ desired_policy_state = None
    /\ pc = "evaluate"
    /\ idx = 0
    /\ stopped_by = None
    /\ ticks = 0
    /\ last_call = << NoCall >>
    /\ applied = {}
    /\ report_message = NoMessage
    /\ sends = << >>
    /\ last_ok_notification_time = now
    /\ any_problem_in_any_firewall = FALSE
    /\ detected = [i \in 1..Len(OPNSENSE_INSTANCES) |-> 0]
    /\ alerted = [i \in 1..Len(OPNSENSE_INSTANCES) |-> 0]
    /\ health_input = None
    /\ health_threshold = HIGH_PING_THRESHOLD_MS
    /\ health = None

Evaluate ==
    /\ pc = "evaluate"
    /\ desired_policy_state' = get_firewall_policy_state(now)
    /\ pc' = "evaluated"
    /\ UNCHANGED << monitorVars, healthVars, configVars, timerVars, policyVars, reportVars, now, idx, stopped_by, ticks >>

SpecSchedule == ScheduleInit /\ [][Evaluate]_vars

-----------------------------------------------------------------------------
(* Properties of the policy reconciler *)

\* the memory entry of a base URL, None when it has none
Entry(url) == IF url \in DOMAIN firewall_policy_states THEN firewall_policy_states[url] ELSE None

\* the configured URL of instance i with its trailing slashes removed
BaseUrlOf(i) == OPNSENSE_INSTANCES[i].url.stem

\* the step in which instance idx of the policy iteration is reconciled
PolicyStep ==
    /\ pc = "policy"
    /\ idx <= NumInstances
    /\ (idx' = idx + 1 \/ last_call'[idx] # last_call[idx])

\* the call of that step, and the call before it for the same instance
ThisCall == last_call'[idx]
PreviousCall == last_call[idx]

Ops(t) == [k \in 1..Len(t.calls) |-> t.calls[k].op]
Lookup == "find_alias_uuid_by_name"
Push == "update_alias_content"
Apply == "apply_firewall_changes"
Issued(t, op) == \E k \in 1..Len(t.calls) : t.calls[k].op = op
Responses(t, op) == { t.calls[k].response : k \in { j \in 1..Len(t.calls) : t.calls[j].op = op } }

\* what the appliance answered, whatever the client made of it
Saved(response) ==
    response.kind = "dict" /\ "result" \in DOMAIN response.body /\ response.body.result = "saved"
Reconfigured(response) ==
    response.kind = "dict" /\ "status" \in DOMAIN response.body /\ response.body.status = "ok"
Answered(response) == response # Interrupted
HasRowNamed(response, name) ==
    /\ response.kind = "dict"
    /\ "rows" \in DOMAIN response.body
    /\ \E k \in 1..Len(response.body.rows) : response.body.rows[k].name = name

ApplyConfirmed(t) == \E r \in Responses(t, Apply) : Reconfigured(r)
ApplyRefused(t) ==
    /\ \E r \in Responses(t, Push) : Saved(r)
    /\ \E r \in Responses(t, Apply) : Answered(r) /\ ~Reconfigured(r)

\* C1: every entry of the policy memory is a state that was the desired state
\* of a call for that base URL whose remote apply answered success, and the
\* memory changes only in such a call, which stores its desired state under
\* its base URL and nothing else.
C1_EntriesConfirmed ==
    \A url \in DOMAIN firewall_policy_states : << url, firewall_policy_states[url] >> \in applied

C1_WrittenOnlyOnConfirmedApply ==
    firewall_policy_states' # firewall_policy_states =>
        /\ PolicyStep
        /\ ApplyConfirmed(ThisCall)
        /\ DOMAIN firewall_policy_states' = DOMAIN firewall_policy_states \cup { BaseUrlOf(idx) }
        /\ \A url \in DOMAIN firewall_policy_states' :
             firewall_policy_states'[url] =
                IF url = BaseUrlOf(idx) THEN desired_policy_state ELSE firewall_policy_states[url]

C1_MemoryOnlyAfterConfirmedApply ==
    []C1_EntriesConfirmed /\ [][C1_WrittenOnlyOnConfirmedApply]_vars

\* an entry rewritten by a second confirmed apply, beside a later call whose
\* apply was refused and left it alone
C1_Witness ==
    \E i \in 1..NumInstances :
        /\ last_call[i] # NoCall
        /\ ApplyRefused(last_call[i])
        /\ Entry(BaseUrlOf(i)) \in PolicyState
        /\ Entry(BaseUrlOf(i)) # last_call[i].desired_state
        /\ \A st \in PolicyState : << BaseUrlOf(i), st >> \in applied

\* Two calls in a row for an instance: the call before this one had the same
\* desired state, and the memory entry is as that call left it.
InARow ==
    /\ PolicyStep
    /\ PreviousCall # NoCall
    /\ PreviousCall.desired_state = desired_policy_state
    /\ Entry(BaseUrlOf(idx)) = PreviousCall.state_after

NoOp(t) == t.calls = << >> /\ t.exc = None /\ t.log = LogNoChange

\* C2 as stated: of two calls in a row with the same desired state, from any
\* starting memory, the first performs resolve, push and apply once and the
\* second is a no-op.
C2_SecondCallAlwaysNoOp ==
    [][InARow => /\ Ops(PreviousCall) = << Lookup, Push, Apply >>
                 /\ NoOp(ThisCall)
                 /\ firewall_policy_states' = firewall_policy_states]_vars

\* C2: of two calls in a row with the same desired state, the second is a
\* no-op exactly when the first left the memory entry equal to the desired
\* state, that is when its apply was confirmed or the entry was equal already;
\* after a first call that failed before that, the second call starts over
\* at the alias lookup.
C2_SecondCallNoOpAfterSuccess ==
    [][InARow =>
         /\ (ApplyConfirmed(PreviousCall) \/ PreviousCall.current_state = desired_policy_state)
               => NoOp(ThisCall) /\ firewall_policy_states' = firewall_policy_states
         /\ (~ApplyConfirmed(PreviousCall) /\ PreviousCall.current_state # desired_policy_state)
               => Len(ThisCall.calls) >= 1 /\ ThisCall.calls[1].op = Lookup]_vars

\* the second tick's call found nothing to do after the first tick's call
\* applied the same desired state
C2_Witness ==
    /\ NumInstances = 1
    /\ ticks = 2
    /\ pc = "policy"
    /\ idx = 2
    /\ NoOp(last_call[1])
    /\ last_call[1].current_state = desired_policy_state
    /\ applied = { << BaseUrlOf(1), desired_policy_state >> }

\* C3: a call whose memory entry already equals the desired state issues no
\* remote call and leaves the memory alone; a push is issued only by a call
\* whose memory entry differs from the desired state.
C3_NoRedundantWrites ==
    [][PolicyStep =>
         /\ Entry(BaseUrlOf(idx)) = desired_policy_state
               => ThisCall.calls = << >> /\ firewall_policy_states' = firewall_policy_states
         /\ Issued(ThisCall, Push) => Entry(BaseUrlOf(idx)) # desired_policy_state]_vars

\* a call that found the entry equal to the desired state and issued nothing
C3_Witness ==
    \E i \in 1..NumInstances :
        /\ last_call[i] # NoCall
        /\ last_call[i].current_state = last_call[i].desired_state
        /\ last_call[i].calls = << >>
        /\ Entry(BaseUrlOf(i)) = last_call[i].desired_state

\* C4: a call whose lookup is answered without a row of the configured name
\* issues neither push nor apply, leaves the memory alone, and ends on the
\* alias-not-found line, which is neither the push-failed nor the
\* apply-failed line.
C4_AliasNotFound ==
    [][(/\ PolicyStep
        /\ \E r \in Responses(ThisCall, Lookup) :
              Answered(r) /\ ~HasRowNamed(r, OPNSENSE_INSTANCES[idx].alias_name))
         => /\ Ops(ThisCall) = << Lookup >>
            /\ firewall_policy_states' = firewall_policy_states
            /\ ThisCall.exc = None
            /\ ThisCall.log = LogNoUuid
            /\ ThisCall.log \notin { LogPushFailed, LogApplyFailed, LogUpdated, LogNoChange }]_vars

\* a lookup answered with the rows of other aliases only
C4_Witness ==
    \E i \in 1..NumInstances :
        /\ last_call[i] # NoCall
        /\ Responses(last_call[i], Lookup) = { JsonDict([rows |-> << UnrelatedRow >>]) }
        /\ last_call[i].log = LogNoUuid

\* C5: a call whose push is answered with anything but "saved", or not
\* answered, issues no apply and leaves the memory alone.
C5_PushFailed ==
    [][(PolicyStep /\ \E r \in Responses(ThisCall, Push) : Answered(r) /\ ~Saved(r))
         => /\ ~Issued(ThisCall, Apply)
            /\ Ops(ThisCall) = << Lookup, Push >>
            /\ firewall_policy_states' = firewall_policy_states
            /\ ThisCall.log = LogPushFailed]_vars

\* a push the appliance refused
C5_Witness ==
    \E i \in 1..NumInstances :
        /\ last_call[i] # NoCall
        /\ Responses(last_call[i], Push) = { JsonDict([result |-> "failed"]) }
        /\ last_call[i].log = LogPushFailed

\* no other configured instance has the base URL of instance idx
OwnBaseUrl == \A j \in 1..NumInstances : j # idx => BaseUrlOf(j) # BaseUrlOf(idx)

\* the call before this one, in the previous run of the policy timer, had its
\* push saved and its apply refused
AfterRefusedApply == PolicyStep /\ PreviousCall # NoCall /\ ApplyRefused(PreviousCall)

C7_FirstRunAttemptsEveryInstance ==
    (ticks = 1 /\ pc = "policy" /\ idx > NumInstances) =>
        \A i \in 1..NumInstances :
            /\ last_call[i] # NoCall
            /\ Len(last_call[i].calls) >= 1
            /\ last_call[i].calls[1].op = Lookup

-----------------------------------------------------------------------------
(* Properties of the schedule evaluator *)

\* The calendar of the timestamps: day 0 is a Monday, so the days 5, 12, ...
\* are Saturdays and the days 6, 13, ... are Sundays.
DayNumber(t) == t \div SecondsPerDay
SecondOfDay(t) == t - DayNumber(t) * SecondsPerDay
OnSaturday(t) == \E w \in 0..MaxDay : DayNumber(t) = 7 * w + 5
OnSunday(t) == \E w \in 0..MaxDay : DayNumber(t) = 7 * w + 6
NoonSecond == 12 * SecondsPerHour

\* C9: for every timestamp on a Sunday the evaluator returns ALLOWED,
\* whatever the time of day.
C9_SundayAllowed ==
    (pc = "evaluated" /\ OnSunday(now)) => desired_policy_state = ALLOWED

\* the evaluator ran on the first and on the last second of a Sunday explored
C9_Witness ==
    /\ pc = "evaluated"
    /\ OnSunday(now)
    /\ SecondOfDay(now) \in { 0, 23 * SecondsPerHour + 59 * SecondsPerMinute + 59 }
    /\ desired_policy_state = ALLOWED

\* C10: for every timestamp on a Saturday the evaluator returns ALLOWED when
\* the time of day is at or after the cutoff of 12:00 and BLOCKED when it is
\* before the cutoff.
C10_SaturdayCutoff ==
    (pc = "evaluated" /\ OnSaturday(now)) =>
        desired_policy_state = IF SecondOfDay(now) >= NoonSecond THEN ALLOWED ELSE BLOCKED

\* the evaluator ran on a Saturday at 12:00:00 sharp
C10_Witness ==
    /\ pc = "evaluated"
    /\ OnSaturday(now)
    /\ SecondOfDay(now) = NoonSecond
    /\ desired_policy_state = ALLOWED

OnWeekday(t) == \E w \in 0..MaxDay, d \in 0..4 : DayNumber(t) = 7 * w + d
LunchStartSecond == 11 * SecondsPerHour
LunchEndSecond == 13 * SecondsPerHour

\* C11: for every timestamp on Monday to Friday the evaluator returns ALLOWED
\* exactly when the time of day lies in [11:00, 13:00): ALLOWED at 11:00:00,
\* BLOCKED at 13:00:00 and at every time outside the window.
C11_WeekdayLunchWindow ==
    (pc = "evaluated" /\ OnWeekday(now)) =>
        desired_policy_state =
            IF LunchStartSecond <= SecondOfDay(now) /\ SecondOfDay(now) < LunchEndSecond
            THEN ALLOWED ELSE BLOCKED

\* the evaluator ran on a weekday at 13:00:00 sharp and closed the window
C11_Witness ==
    /\ pc = "evaluated"
    /\ OnWeekday(now)
    /\ SecondOfDay(now) = LunchEndSecond
    /\ desired_policy_state = BLOCKED

-----------------------------------------------------------------------------
(* Properties of the loop *)

\* what the appliance answered to a call that failed: no row of the alias's
\* name, a push not saved, or a push saved and an apply refused
AliasMissing(t, alias_name) ==
    \E r \in Responses(t, Lookup) : Answered(r) /\ ~HasRowNamed(r, alias_name)
PushRefused(t) == \E r \in Responses(t, Push) : Answered(r) /\ ~Saved(r)
ReconcileFailed(t, alias_name) == AliasMissing(t, alias_name) \/ PushRefused(t) \/ ApplyRefused(t)

\* the step that ends a run of the policy timer
PolicyRunEnds == pc = "policy" /\ idx > NumInstances /\ pc' = "report_check"

\* the instances before position idx have been reconciled in the running run
ReconciledSoFar ==
    \A i \in 1..NumInstances :
        i < idx => last_call[i] # NoCall /\ last_call[i].desired_state = desired_policy_state

\* C12: a reconciliation that fails (alias not found, push failed, apply
\* failed) does not stop the run of the policy timer: the loop goes on to the
\* next instance, the run ends only after the last instance, with every
\* instance reconciled, and it sets the timer's stamp to the tick's
\* timestamp whether or not an instance failed; a run starts only when the
\* timer is due.
C12_FailureDoesNotStopTheRun ==
    /\ [](pc = "policy" => /\ now - last_status_check_time >= STATUS_CHECK_INTERVAL
                           /\ ReconciledSoFar)
    /\ [][(PolicyStep /\ ReconcileFailed(ThisCall, OPNSENSE_INSTANCES[idx].alias_name))
            => /\ pc' = "policy"
               /\ idx' = idx + 1
               /\ stopped_by' = None
               /\ last_status_check_time' = last_status_check_time]_vars
    /\ [][PolicyRunEnds => last_status_check_time' = now /\ ReconciledSoFar]_vars

\* the first run is over and stamped: the first instance's push was refused
\* and the second instance was reconciled after it
C12_Witness ==
    /\ NumInstances = 2
    /\ ticks = 1
    /\ pc = "report_check"
    /\ last_status_check_time = now
    /\ PushRefused(last_call[1])
    /\ last_call[2] # NoCall
    /\ ApplyConfirmed(last_call[2])

\* C13 as stated: no outcome of a firewall-API call ends the loop; whatever
\* the appliance answers, the loop is never left through "except Exception".
C13_NoApiOutcomeEndsTheLoop == stopped_by # "Exception"

\* the step in which a KeyboardInterrupt reaches the loop
InterruptDelivered == stopped_by = None /\ stopped_by' = "KeyboardInterrupt"

\* the request of a call during which the interrupt arrived is its last
InterruptedRequestIsLast(t) ==
    \A k \in 1..Len(t.calls) : t.calls[k].response = Interrupted => k = Len(t.calls)

\* C14: an interrupt stops the loop without a final apply. In the step in
\* which it is delivered the loop terminates and the memory is not written;
\* a reconcile call it interrupts issues no request after the one during or
\* after which it arrived, also when that is a push the appliance saved; an
\* interrupt that arrives during a request is never taken for a failed
\* request; and once the loop has terminated nothing changes any more.
C14_InterruptStopsTheLoop ==
    /\ [](stopped_by = "KeyboardInterrupt" => pc = "done")
    /\ [][InterruptDelivered =>
            /\ pc' = "done"
            /\ firewall_policy_states' = firewall_policy_states
            /\ PolicyStep => /\ ThisCall.exc = "KeyboardInterrupt"
                             /\ ThisCall.log = None
                             /\ ThisCall.state_after = ThisCall.current_state
                             /\ InterruptedRequestIsLast(ThisCall)]_vars
    /\ [][(PolicyStep /\ \E k \in 1..Len(ThisCall.calls) : ThisCall.calls[k].response = Interrupted)
            => InterruptDelivered /\ applied' = applied]_vars
    /\ [][pc = "done" => FALSE]_vars

\* the interrupt arrived after the appliance saved the push and before the
\* apply: no apply was requested and the memory has no entry
C14_Witness ==
    /\ stopped_by = "KeyboardInterrupt"
    /\ pc = "done"
    /\ \E i \in 1..NumInstances :
         /\ last_call[i] # NoCall
         /\ last_call[i].exc = "KeyboardInterrupt"
         /\ Ops(last_call[i]) = << Lookup, Push >>
         /\ \A r \in Responses(last_call[i], Push) : Saved(r)
         /\ Entry(BaseUrlOf(i)) = None

-----------------------------------------------------------------------------
(* main-v2.check_firewall_health *)

\* JSON values of a gateway record's delay: a string as the sequence of its
\* characters, null, a number
Str(chars) == [kind |-> "str", chars |-> chars]
Null == [kind |-> "null"]
Number(n) == [kind |-> "number", value |-> n]

Digits == { "0", "1", "2", "3", "4", "5", "6", "7", "8", "9" }
DigitValue(ch) ==
    CASE ch = "0" -> 0 [] ch = "1" -> 1 [] ch = "2" -> 2 [] ch = "3" -> 3 [] ch = "4" -> 4
      [] ch = "5" -> 5 [] ch = "6" -> 6 [] ch = "7" -> 7 [] ch = "8" -> 8 [] ch = "9" -> 9

\* str.replace('ms', ''): every occurrence removed, from the left
RECURSIVE replace_ms(_)
replace_ms(chars) ==
    IF Len(chars) = 0 THEN << >>
    ELSE IF Len(chars) >= 2 /\ chars[1] = "m" /\ chars[2] = "s"
         THEN replace_ms(SubSeq(chars, 3, Len(chars)))
         ELSE << chars[1] >> \o replace_ms(Tail(chars))

RECURSIVE DecimalValue(_)
DecimalValue(digits) ==
    IF Len(digits) = 0 THEN 0
    ELSE 10 * DecimalValue(SubSeq(digits, 1, Len(digits) - 1)) + DigitValue(digits[Len(digits)])

RECURSIVE PowerOfTen(_)
PowerOfTen(n) == IF n = 0 THEN 1 ELSE 10 * PowerOfTen(n - 1)

\* float(text) for a text of digits, ".", "-" and other characters that are
\* neither blank nor a sign, an exponent, an underscore or part of inf or
\* nan: an optional "-", then digits with at most one "." among them and at
\* least one digit; anything else raises ValueError. The number is kept as
\* mantissa / 10^decimals.
float(chars) ==
    LET negative == Len(chars) > 0 /\ chars[1] = "-"
        body == IF negative THEN Tail(chars) ELSE chars
        dots == { i \in 1..Len(body) : body[i] = "." }
        valid == /\ \A i \in 1..Len(body) : body[i] \in Digits \cup { "." }
                 /\ Cardinality(dots) <= 1
                 /\ \E i \in 1..Len(body) : body[i] \in Digits
        decimals == IF dots = {} THEN 0 ELSE Len(body) - (CHOOSE i \in dots : TRUE)
        magnitude == DecimalValue(SelectSeq(body, LAMBDA ch : ch \in Digits))
    IN  IF valid
        THEN Return([mantissa |-> IF negative THEN 0 - magnitude ELSE magnitude,
                     decimals |-> decimals])
        ELSE Raise("ValueError")

\* a number that is greater than or equal to the high_ping_threshold
greater_or_equal(latency_ms, high_ping_threshold) ==
    latency_ms.mantissa >= high_ping_threshold * PowerOfTen(latency_ms.decimals)

\* line 57: latency_ms > high_ping_threshold
greater(latency_ms, high_ping_threshold) ==
    latency_ms.mantissa > high_ping_threshold * PowerOfTen(latency_ms.decimals)

\* the entries of problems_found
Unavailable == [kind |-> "unavailable"]
Offline(name, status) == [kind |-> "offline", name |-> name, status |-> status]
HighPing(name, latency_ms) == [kind |-> "high ping", name |-> name, latency_ms |-> latency_ms]

\* a result that reports the missing status without flagging a problem
status_unavailable_unflagged == Return([has_problem |-> FALSE, problems_found |-> << Unavailable >>])

\* line 38 to 40
status_unavailable == Return([has_problem |-> TRUE, problems_found |-> << Unavailable >>])

\* line 43 to 62 for one gateway: the entries it adds, or the exception
check_gateway(gateway, high_ping_threshold) ==
    IF gateway.kind # "dict" THEN Raise("AttributeError")
    ELSE LET name == IF "name" \in DOMAIN gateway.body THEN gateway.body.name ELSE "N/A"
             status == IF "status" \in DOMAIN gateway.body THEN gateway.body.status ELSE "unknown"
             delay_str == IF "delay" \in DOMAIN gateway.body THEN gateway.body.delay
                          ELSE Str(<< "0", ".", "0", "m", "s" >>)
             offline == IF status # "online" THEN << Offline(name, status) >> ELSE << >>
             latency_ms == float(replace_ms(delay_str.chars))
         IN  IF delay_str.kind # "str" THEN Raise("AttributeError")
             ELSE IF latency_ms.exc # None THEN Return(offline)
             ELSE IF greater(latency_ms.value, high_ping_threshold)
                  THEN Return(Append(offline, HighPing(name, latency_ms.value)))
                  ELSE Return(offline)

\* the loop of line 42 from gateway i on, problems_found so far
RECURSIVE check_gateways(_, _, _, _)
check_gateways(items, high_ping_threshold, i, problems_found) ==
    IF i > Len(items)
    THEN Return([has_problem |-> problems_found # << >>, problems_found |-> problems_found])
    ELSE LET added == check_gateway(items[i], high_ping_threshold)
         IN  IF added.exc # None THEN added
             ELSE check_gateways(items, high_ping_threshold, i + 1, problems_found \o added.value)

check_firewall_health(gateways_status, high_ping_threshold) ==
    IF \/ ~Truthy(gateways_status)
       \/ gateways_status.kind # "dict"
       \/ "items" \notin DOMAIN gateways_status.body
    THEN status_unavailable
    ELSE check_gateways(gateways_status.body.items, high_ping_threshold, 1, << >>)

-----------------------------------------------------------------------------
(* main-v2.main: the health monitoring loop *)

MaxCycles == 3

CHECK_INTERVAL_SECONDS == 120
OK_NOTIFICATION_INTERVAL == timedelta_minutes(30)

\* seconds from one reading of datetime.now() at the top of a cycle to the
\* next: the sleep of CHECK_INTERVAL_SECONDS and the time the cycle took
CycleDelays == { CHECK_INTERVAL_SECONDS, CHECK_INTERVAL_SECONDS + OK_NOTIFICATION_INTERVAL }

\* the messages of the loop
\* a handler that reports the exception as an all-clear
quiet_message(exc) == [kind |-> "all clear"]

AlertMessage(friendly_name, problem_details) ==
    [kind |-> "alert", firewall_name |-> friendly_name, problems |-> problem_details]
OkMessage == [kind |-> "all clear"]
CriticalMessage(exc) == [kind |-> "critical", exc |-> exc]

\* a loop that keeps quiet about the problems it finds
alert_messages_suppressed(has_problem, friendly_name, problem_details) == << >>

\* line 115 to 125: the messages handed to the notifier after a health check
alert_messages(has_problem, friendly_name, problem_details) ==
    IF has_problem THEN << AlertMessage(friendly_name, problem_details) >> ELSE << >>

\* a loop that sends the all-clear whenever the interval has elapsed
all_clear_due_regardless(any_problem, t, last_ok) == t - last_ok >= OK_NOTIFICATION_INTERVAL

\* line 128 and 130: the all-clear is sent in this cycle
all_clear_due(any_problem, t, last_ok) ==
    ~any_problem /\ t - last_ok >= OK_NOTIFICATION_INTERVAL

\* the answers to routes/gateway/status
Text10ms == Str(<< "1", "0", ".", "0", "m", "s" >>)
Text75ms == Str(<< "7", "5", ".", "3", "m", "s" >>)
MonitorGatewayResponses ==
    { NoResponse, Interrupted,
      JsonDict([status |-> "error"]),
      JsonDict([items |-> << Gateway("WAN_GW", "online", Text10ms) >>]),
      JsonDict([items |-> << Gateway("WAN_GW", "offline", Text75ms),
                             Gateway("LTE_GW", "online", Text10ms) >>]),
      JsonDict([items |-> << Gateway("WAN_GW", "online", Null) >>]) }

MonitorInit ==
    /\ OPNSENSE_INSTANCES \in Configurations
    /\ now \in StartTimes
    /\ last_ok_notification_time = now - OK_NOTIFICATION_INTERVAL
    /\ any_problem_in_any_firewall = FALSE
    /\ detected = [i \in 1..Len(OPNSENSE_INSTANCES) |-> 0]
    /\ alerted = [i \in 1..Len(OPNSENSE_INSTANCES) |-> 0]
    /\ health_input = None
    /\ health_threshold = HIGH_PING_THRESHOLD_MS
    /\ health = None
    /\ last_status_check_time = now
    /\ last_report_send_time = now
    /\ firewall_policy_states = EmptyDict
    /\ desired_policy_state = None
    /\ pc = "cycle"
    /\ idx = 0
    /\ stopped_by = None
    /\ ticks = 0
    /\ last_call = [i \in 1..NumInstances |-> NoCall]
    /\ applied = {}
    /\ report_message = NoMessage
    /\ sends = << >>

monitorFrame == << configVars, timerVars, policyVars, desired_policy_state >>

\* line 88 to 92: a cycle starts
CycleStart ==
    /\ pc = "cycle"
    /\ ticks < MaxCycles
    /\ \E d \in (IF ticks = 0 THEN {0} ELSE CycleDelays) : now' = now + d
    /\ ticks' = ticks + 1
    /\ any_problem_in_any_firewall' = FALSE
    /\ idx' = 1
    /\ sends' = << >>
    /\ pc' = "poll"
    /\ UNCHANGED << monitorFrame, healthVars, last_ok_notification_time, stopped_by,
                    report_message, detected, alerted >>

\* line 94 to 120: poll one instance, evaluate its health, build its alert
CheckHealth ==
    /\ pc = "poll"
    /\ idx <= NumInstances
    /\ \E response \in MonitorGatewayResponses :
         LET client == OpnSenseApiClient(OPNSENSE_INSTANCES[idx])
             polled == get_gateway_status(response)
             checked == IF polled.exc # None THEN polled
                        ELSE check_firewall_health(polled.value, HIGH_PING_THRESHOLD_MS)
             messages == alert_messages(checked.value.has_problem, client.friendly_name,
                                        checked.value.problems_found)
         IN  /\ health_input' = response
             /\ health_threshold' = HIGH_PING_THRESHOLD_MS
             /\ health' = checked
             /\ IF checked.exc = "KeyboardInterrupt"
                THEN /\ pc' = "done"
                     /\ stopped_by' = "KeyboardInterrupt"
                     /\ UNCHANGED << idx, any_problem_in_any_firewall, report_message, detected >>
                ELSE IF checked.exc # None
                THEN /\ pc' = "except"
                     /\ report_message' = CriticalMessage(checked.exc)
                     /\ UNCHANGED << idx, any_problem_in_any_firewall, stopped_by, detected >>
                ELSE /\ any_problem_in_any_firewall' =
                          (any_problem_in_any_firewall \/ checked.value.has_problem)
                     /\ detected' = IF checked.value.has_problem
                                    THEN [detected EXCEPT ![idx] = @ + 1]
                                    ELSE detected
                     /\ IF messages # << >>
                        THEN pc' = "alert" /\ idx' = idx /\ report_message' = messages[1]
                        ELSE pc' = "poll" /\ idx' = idx + 1 /\ report_message' = report_message
                     /\ UNCHANGED stopped_by
    /\ UNCHANGED << monitorFrame, now, ticks, sends, last_ok_notification_time, alerted >>

\* line 125: the alert is handed to the notifier, then the next instance
SendAlert ==
    /\ pc = "alert"
    /\ \E response \in TelegramResponses :
         LET sent == send_message(report_message, response)
         IN  /\ sends' = Append(sends, [message |-> report_message,
                                        delivered |-> (sent.exc = None /\ sent.value)])
             /\ IF sent.exc # None
                THEN pc' = "done" /\ stopped_by' = ExceptClause(sent.exc) /\ idx' = idx
                ELSE pc' = "poll" /\ idx' = idx + 1 /\ stopped_by' = stopped_by
    /\ alerted' = [alerted EXCEPT ![idx] = @ + 1]
    /\ UNCHANGED << monitorFrame, healthVars, now, ticks, report_message,
                    last_ok_notification_time, any_problem_in_any_firewall, detected >>

\* line 128 to 146: after the last instance, the all-clear if it is due
AllClear ==
    /\ pc = "poll"
    /\ idx > NumInstances
    /\ IF all_clear_due(any_problem_in_any_firewall, now, last_ok_notification_time)
       THEN \E response \in TelegramResponses :
              LET sent == send_message(OkMessage, response)
              IN  /\ sends' = Append(sends, [message |-> OkMessage,
                                             delivered |-> (sent.exc = None /\ sent.value)])
                  /\ report_message' = OkMessage
                  /\ IF sent.exc # None
                     THEN /\ pc' = "done"
                          /\ stopped_by' = ExceptClause(sent.exc)
                          /\ UNCHANGED last_ok_notification_time
                     ELSE /\ pc' = "cycle_sleep"
                          /\ last_ok_notification_time' = now
                          /\ UNCHANGED stopped_by
       ELSE /\ pc' = "cycle_sleep"
            /\ UNCHANGED << sends, report_message, last_ok_notification_time, stopped_by >>
    /\ UNCHANGED << monitorFrame, healthVars, any_problem_in_any_firewall, now, ticks, idx,
                    detected, alerted >>

\* line 150: time.sleep(CHECK_INTERVAL_SECONDS)
CycleSleep ==
    /\ pc = "cycle_sleep"
    /\ pc' = "cycle"
    /\ UNCHANGED << monitorFrame, monitorVars, healthVars, now, ticks, idx, sends,
                    report_message, stopped_by >>

\* line 154 to 158: an exception other than KeyboardInterrupt left the loop;
\* the critical message is sent and main ends. A KeyboardInterrupt during
\* that send is in no try block.
ExceptException ==
    /\ pc = "except"
    /\ \E response \in TelegramResponses :
         LET sent == send_message(report_message, response)
         IN  /\ sends' = Append(sends, [message |-> report_message,
                                        delivered |-> (sent.exc = None /\ sent.value)])
             /\ stopped_by' = IF sent.exc # None THEN "Unhandled" ELSE "Exception"
    /\ pc' = "done"
    /\ UNCHANGED << monitorFrame, monitorVars, healthVars, now, ticks, idx, report_message >>

\* line 152: a KeyboardInterrupt between two steps of the loop
MonitorInterrupt ==
    /\ pc \notin { "done", "except" }
    /\ pc' = "done"
    /\ stopped_by' = "KeyboardInterrupt"
    /\ UNCHANGED << monitorFrame, monitorVars, healthVars, now, ticks, idx, sends,
                    report_message >>

NextMonitor ==
    \/ CycleStart
    \/ CheckHealth
    \/ SendAlert
    \/ AllClear
    \/ CycleSleep
    \/ ExceptException
    \/ MonitorInterrupt

SpecMonitor == MonitorInit /\ [][NextMonitor]_vars

-----------------------------------------------------------------------------
(* Properties of the monitoring loop *)

\* the loop has neither been interrupted nor left by an exception
MonitorRunning == stopped_by = None /\ pc # "except"

\* the alert of the instance at idx has been built and not yet been sent
AlertPending(i) == pc = "alert" /\ idx = i

C15_OneAlertPerDetection ==
    MonitorRunning =>
        \A i \in 1..NumInstances :
            detected[i] = alerted[i] + (IF AlertPending(i) THEN 1 ELSE 0)

C15_AlertIsOfTheInstance ==
    pc = "alert" /\ alerted' # alerted =>
        /\ alerted' = [alerted EXCEPT ![idx] = @ + 1]
        /\ Len(sends') = Len(sends) + 1
        /\ SubSeq(sends', 1, Len(sends)) = sends
        /\ sends'[Len(sends')].message =
               AlertMessage(OPNSENSE_INSTANCES[idx].friendly_name, health.value.problems_found)

\* C15: in every monitoring cycle, every health evaluation that reports a
\* problem is followed by exactly one alert for that instance handed to
\* send_message before the next instance is polled, in each cycle anew: while
\* the loop runs, detections and alerts of an instance are equal in number but
\* for the alert that is pending, and that alert names the instance and
\* carries the problems of its evaluation.
C15_AlertOnEveryDetection ==
    []C15_OneAlertPerDetection /\ [][C15_AlertIsOfTheInstance]_vars

\* the first instance has been alerted about in two cycles, the loop goes on
C15_Witness ==
    /\ MonitorRunning
    /\ pc = "poll"
    /\ alerted[1] >= 2
    /\ detected[1] = alerted[1]

\* the for loop is over and the cycle reaches its sleep
CycleCompletes == pc = "poll" /\ pc' = "cycle_sleep"

\* at least the all-clear interval has passed since the stamp
IntervalElapsed == now - last_ok_notification_time >= 30 * SecondsPerMinute

\* an alert has been handed to the notifier in the running cycle
AlertedThisCycle == \E i \in 1..Len(sends) : sends[i].message.kind = "alert"

\* this step hands the all-clear message to the notifier
SendsAllClear ==
    /\ Len(sends') = Len(sends) + 1
    /\ SubSeq(sends', 1, Len(sends)) = sends
    /\ sends'[Len(sends')].message.kind = "all clear"

\* C16 as stated: in every cycle in which the interval has elapsed since the
\* last all-clear, an all-clear is sent, whether or not alerts were sent.
C16_AllClearRegardlessOfAlerts ==
    [][CycleCompletes /\ IntervalElapsed => SendsAllClear]_vars

\* C16: a cycle that has polled every instance sends the all-clear if and
\* only if the interval has elapsed since the stamp of the last one and no
\* alert was sent in this cycle; alerts of earlier cycles have no part in it.
\* The stamp moves to the cycle's time when the all-clear is handed to the
\* notifier, and stays otherwise.
C16_AllClearOnlyInQuietCycle ==
    [][CycleCompletes =>
          /\ SendsAllClear <=> (IntervalElapsed /\ ~AlertedThisCycle)
          /\ SendsAllClear => last_ok_notification_time' = now
          /\ ~SendsAllClear => /\ sends' = sends
                               /\ last_ok_notification_time' = last_ok_notification_time]_vars

\* the all-clear has been sent in a later cycle than an alert
C16_Witness ==
    /\ pc = "cycle_sleep"
    /\ ticks >= 2
    /\ \E i \in 1..NumInstances : alerted[i] >= 1
    /\ ~AlertedThisCycle
    /\ \E i \in 1..Len(sends) : sends[i].message.kind = "all clear"
    /\ last_ok_notification_time = now

-----------------------------------------------------------------------------
(* check_firewall_health on bounded inputs *)

MaxGateways == 2

Text50ms == Str(<< "5", "0", ".", "0", "m", "s" >>)
TextJustOver50ms == Str(<< "5", "0", ".", "0", "1", "m", "s" >>)
TextBogus == Str(<< "b", "o", "g", "u", "s", "m", "s" >>)
TextTwoUnits == Str(<< "5", "m", "s", "1", "m", "s" >>)

\* a record without the status key, without the delay key
NoStatus == "no status key"
NoDelay == [kind |-> "no delay key"]

HealthStatuses == { "online", "offline", "Online", NoStatus }
HealthDelays ==
    { Text10ms, Text50ms, TextJustOver50ms, Text75ms, TextBogus, TextTwoUnits,
      Null, Number(75), NoDelay }
HealthThresholds == { 10, HIGH_PING_THRESHOLD_MS, 75 }

\* a gateway record with the keys it has
GatewayRecord(status, delay) ==
    JsonDict([k \in { "name" } \cup (IF status = NoStatus THEN {} ELSE { "status" })
                               \cup (IF delay = NoDelay THEN {} ELSE { "delay" }) |->
                 CASE k = "name" -> "WAN_GW"
                   [] k = "status" -> status
                   [] k = "delay" -> delay])

GatewayRecords == { GatewayRecord(status, delay) : status \in HealthStatuses, delay \in HealthDelays }

RECURSIVE Collections(_)
Collections(n) ==
    IF n = 0 THEN { << >> }
    ELSE LET shorter == Collections(n - 1)
         IN  shorter \cup { Append(items, gateway) :
                              items \in { c \in shorter : Len(c) = n - 1 },
                              gateway \in GatewayRecords }

\* inputs without a gateway collection
NoCollectionInputs ==
    { NoResponse, JsonDict(EmptyDict), JsonList(<< >>), JsonDict([status |-> "error"]),
      JsonList(<< GatewayRecord("offline", Text75ms) >>) }

HealthInputs ==
    NoCollectionInputs \cup { JsonDict([items |-> items]) : items \in Collections(MaxGateways) }

HealthInit ==
    /\ health_input \in HealthInputs
    /\ health_threshold \in HealthThresholds
    /\ health = None
    /\ OPNSENSE_INSTANCES = << InstanceFva >>
    /\ now = At(0, 0, 0, 0)
    /\ last_ok_notification_time = now
    /\ any_problem_in_any_firewall = FALSE
    /\ detected = [i \in 1..Len(OPNSENSE_INSTANCES) |-> 0]
    /\ alerted = [i \in 1..Len(OPNSENSE_INSTANCES) |-> 0]
    /\ last_status_check_time = now
    /\ last_report_send_time = now
    /\ firewall_policy_states = EmptyDict
    /\ desired_policy_state = None
    /\ pc = "call"
    /\ idx = 0
    /\ stopped_by = None
    /\ ticks = 0
    /\ last_call = [i \in 1..NumInstances |-> NoCall]
    /\ applied = {}
    /\ report_message = NoMessage
    /\ sends = << >>

\* line 111 to 114: the call
EvaluateHealth ==
    /\ pc = "call"
    /\ health' = check_firewall_health(health_input, health_threshold)
    /\ pc' = "returned"
    /\ UNCHANGED << health_input, health_threshold, monitorVars, configVars, timerVars,
                    policyVars, reportVars, now, desired_policy_state, idx, stopped_by, ticks >>

SpecHealth == HealthInit /\ [][EvaluateHealth]_vars

-----------------------------------------------------------------------------
(* Properties of check_firewall_health *)

Returned == pc = "returned"

\* the input is a JSON object with a gateway collection
HasCollection == health_input.kind = "dict" /\ "items" \in DOMAIN health_input.body

\* C18: when the gateway status is absent (None), empty (an object or a list
\* without members) or has no "items" collection, the evaluation returns
\* has_problem = true and a list of exactly one entry, the status being
\* unavailable, whatever the threshold.
C18_StatusUnavailable ==
    Returned /\ ~HasCollection =>
        /\ health.exc = None
        /\ health.value.has_problem = TRUE
        /\ Len(health.value.problems_found) = 1
        /\ health.value.problems_found[1].kind = "unavailable"

\* an empty object has been evaluated against the highest threshold
C18_Witness ==
    /\ Returned
    /\ health_input = JsonDict(EmptyDict)
    /\ health_threshold = 75
    /\ health.exc = None
    /\ health.value.has_problem

\* What the records say, read off the texts: the status with its default,
\* and the delay in hundredths of a millisecond where the text, without its
\* "ms", is a number.
StatusOf(gateway) ==
    IF "status" \in DOMAIN gateway.body THEN gateway.body.status ELSE "unknown"
DelayOf(gateway) ==
    IF "delay" \in DOMAIN gateway.body THEN gateway.body.delay ELSE NoDelay
IsNumberText(delay) ==
    delay \in { NoDelay, Text10ms, Text50ms, TextJustOver50ms, Text75ms, TextTwoUnits }
Hundredths(delay) ==
    CASE delay = NoDelay -> 0
      [] delay = Text10ms -> 1000
      [] delay = Text50ms -> 5000
      [] delay = TextJustOver50ms -> 5001
      [] delay = Text75ms -> 7530
      [] delay = TextTwoUnits -> 5100

ExpectedOf(gateway, threshold) ==
    (IF StatusOf(gateway) # "online"
     THEN << [kind |-> "offline", name |-> gateway.body.name, status |-> StatusOf(gateway)] >>
     ELSE << >>)
    \o
    (IF IsNumberText(DelayOf(gateway)) /\ Hundredths(DelayOf(gateway)) > 100 * threshold
     THEN << [kind |-> "high ping", name |-> gateway.body.name,
              hundredths |-> Hundredths(DelayOf(gateway))] >>
     ELSE << >>)

RECURSIVE ExpectedProblems(_, _)
ExpectedProblems(items, threshold) ==
    IF items = << >> THEN << >>
    ELSE ExpectedOf(Head(items), threshold) \o ExpectedProblems(Tail(items), threshold)

\* a returned entry with its latency in hundredths
InHundredths(entry) ==
    IF entry.kind = "high ping"
    THEN [kind |-> "high ping", name |-> entry.name,
          hundredths |-> (entry.latency_ms.mantissa * 100) \div PowerOfTen(entry.latency_ms.decimals)]
    ELSE entry

ReturnedProblems ==
    [i \in 1..Len(health.value.problems_found) |-> InHundredths(health.value.problems_found[i])]

\* every delay of the collection is a text or is left out
DelaysAreTexts ==
    \A i \in 1..Len(health_input.body.items) :
        DelayOf(health_input.body.items[i]).kind \in { "str", "no delay key" }

\* C19: for every collection of gateway records (delays being texts, as the
\* gateway status gives them) and every threshold, the evaluation returns
\* has_problem = true exactly when the list is not empty, and the list is, in
\* the order of the gateways, an offline entry for each gateway whose status
\* is not exactly "online" followed by a high-ping entry when its delay,
\* read as a number, is strictly greater than the threshold.
C19_ProblemsInInputOrder ==
    Returned /\ HasCollection /\ DelaysAreTexts =>
        /\ health.exc = None
        /\ health.value.has_problem <=> (health.value.problems_found # << >>)
        /\ ReturnedProblems = ExpectedProblems(health_input.body.items, health_threshold)

\* an offline gateway over the threshold and then an online one just over it
C19_Witness ==
    /\ Returned
    /\ health_threshold = HIGH_PING_THRESHOLD_MS
    /\ health_input = JsonDict([items |-> << GatewayRecord("offline", Text75ms),
                                             GatewayRecord("online", TextJustOver50ms) >>])
    /\ health.exc = None
    /\ Len(health.value.problems_found) = 3
    /\ health.value.problems_found[1].kind = "offline"
    /\ health.value.problems_found[2].kind = "high ping"
    /\ health.value.problems_found[3].kind = "high ping"

\* C20: a gateway record whose delay does not parse as a number (a text such
\* as "bogusms", a null, a number) is left out of the latency check without
\* the evaluation raising: it adds no entry of its own and the other
\* gateways of the collection are evaluated.
C20_UnparsedDelayIsSkipped ==
    Returned /\ HasCollection =>
        /\ health.exc = None
        /\ ReturnedProblems = ExpectedProblems(health_input.body.items, health_threshold)

-----------------------------------------------------------------------------
(* main.main: a loop that ticks without end *)

SecondsPerWeek == 7 * SecondsPerDay

\* seconds from one reading of the clock to the next: half a week or a week,
\* so that the clock readings are Sunday noon and Thursday midnight, in turn
\* or one of them again and again
LiveTickDelays == { 84 * SecondsPerHour, 168 * SecondsPerHour }

\* The clock is read as in Tick. To keep the states finite the origin of the
\* time axis moves by whole weeks, which leaves the weekday and the time of
\* day as they are, and a stamp older than REPORT_SEND_INTERVAL is kept at
\* that age, which leaves both comparisons of the timers as they are.
Rebased(stamp, t) ==
    LET kept == IF t - stamp > REPORT_SEND_INTERVAL THEN t - REPORT_SEND_INTERVAL ELSE stamp
    IN  kept - (t \div SecondsPerWeek) * SecondsPerWeek

LiveInstances == << InstanceEdi, InstanceFva >>

LiveInit ==
    /\ OPNSENSE_INSTANCES = LiveInstances
    /\ now = At(6, 12, 0, 0)
    /\ last_status_check_time = now - STATUS_CHECK_INTERVAL
    /\ last_report_send_time = now - REPORT_SEND_INTERVAL
    /\ firewall_policy_states = EmptyDict
    /\ desired_policy_state = None
    /\ pc = "tick"
    /\ idx = 0
    /\ stopped_by = None
    /\ ticks = 0
    /\ last_call = [i \in 1..NumInstances |-> NoCall]
    /\ applied = {}
    /\ report_message = NoMessage
    /\ sends = << >>
    /\ last_ok_notification_time = now
    /\ any_problem_in_any_firewall = FALSE
    /\ detected = [i \in 1..Len(OPNSENSE_INSTANCES) |-> 0]
    /\ alerted = [i \in 1..Len(OPNSENSE_INSTANCES) |-> 0]
    /\ health_input = None
    /\ health_threshold = HIGH_PING_THRESHOLD_MS
    /\ health = None

\* line 76 to 83, as Tick, without a bound on the number of iterations
LiveTick ==
    /\ pc = "tick"
    /\ \E d \in (IF ticks = 0 THEN {0} ELSE LiveTickDelays) :
         LET t == now + d
         IN  /\ now' = t % SecondsPerWeek
             /\ last_status_check_time' = Rebased(last_status_check_time, t)
             /\ last_report_send_time' = Rebased(last_report_send_time, t)
             /\ IF t - last_status_check_time >= STATUS_CHECK_INTERVAL
                THEN /\ desired_policy_state' = get_firewall_policy_state(t)
                     /\ idx' = 1
                     /\ pc' = "policy"
                ELSE /\ pc' = "report_check"
                     /\ UNCHANGED << desired_policy_state, idx >>
    /\ ticks' = 1
    /\ UNCHANGED << monitorVars, healthVars, configVars, policyVars, stopped_by, reportVars >>

LoopStep ==
    \/ LiveTick
    \/ PolicyInstance
    \/ PolicyDone
    \/ ReportCheck
    \/ ReportCollect
    \/ ReportSend
    \/ ReportDone
    \/ Sleep

NextLive == LoopStep \/ KeyboardInterrupt

\* where main() stands; every step of the loop moves it
position == << pc, idx >>

\* the thread of main() takes its next step whenever it has one
SpecLive == LiveInit /\ [][NextLive]_vars /\ WF_position(LoopStep)

-----------------------------------------------------------------------------
(* Properties of the report iteration *)

InReportRun == pc \in { "report", "report_send" }

\* the sends of the running report run are one per instance handled so far,
\* each with the report of its instance
OneSendPerInstanceSoFar ==
    /\ Len(sends) = idx - 1
    /\ \A i \in 1..Len(sends) :
          /\ sends[i].message.kind = "report"
          /\ sends[i].message.firewall_name = OPNSENSE_INSTANCES[i].friendly_name

\* the send_message call of a report run returns
ReportSendReturns == pc = "report_send" /\ pc' = "report"

\* the report run ends and stamps its timer
ReportRunEnds == pc = "report" /\ pc' = "sleep"

\* every send of the running report run has been delivered
AllSendsDelivered == \A i \in 1..Len(sends) : sends[i].delivered

\* the report of instance i has been delivered in the running report run
DeliveredFor(i) ==
    /\ pc = "report"
    /\ Len(sends) >= i
    /\ sends[i].delivered
    /\ sends[i].message.firewall_name = LiveInstances[i].friendly_name

\* C17: in one run of the report timer exactly one send is attempted per
\* instance: while the run goes on there is one send for each instance
\* handled so far, a send that returns, delivered or not, moves the run to
\* the next instance, and the run ends with one send for each configured
\* instance. And if from some point on every send is delivered and the loop
\* is never left, the report of every configured instance is delivered again
\* and again.
C17_OneAttemptAndEventualDelivery ==
    /\ [](InReportRun => OneSendPerInstanceSoFar)
    /\ [][ReportSendReturns => /\ idx' = idx + 1
                               /\ Len(sends') = Len(sends) + 1
                               /\ SubSeq(sends', 1, Len(sends)) = sends]_vars
    /\ [][ReportRunEnds => Len(sends) = NumInstances /\ last_report_send_time' = now]_vars
    /\ (<>[]AllSendsDelivered /\ [](pc # "done"))
          => \A i \in 1..Len(LiveInstances) : []<>DeliveredFor(i)

\* a run in which the first send failed has gone on to deliver the second
C17_Witness ==
    /\ pc = "report"
    /\ idx = 3
    /\ Len(sends) = 2
    /\ ~sends[1].delivered
    /\ sends[2].delivered

-----------------------------------------------------------------------------
(* Further properties of the policy reconciler and of the timers *)

\* the first row of the answer that bears the name has a uuid that is not empty
GaveIdentifier(response, name) ==
    /\ HasRowNamed(response, name)
    /\ LET rows == response.body.rows
           first == CHOOSE k \in 1..Len(rows) :
                       /\ rows[k].name = name
                       /\ \A j \in 1..(k - 1) : rows[j].name # name
       IN  "uuid" \in DOMAIN rows[first] /\ rows[first].uuid # ""

IsPrefix(s, t) == Len(s) <= Len(t) /\ SubSeq(t, 1, Len(s)) = s

C21_Pipeline ==
    PolicyStep =>
        /\ IsPrefix(Ops(ThisCall), << Lookup, Push, Apply >>)
        /\ Issued(ThisCall, Push) =>
              \A r \in Responses(ThisCall, Lookup) :
                  GaveIdentifier(r, OPNSENSE_INSTANCES[idx].alias_name)
        /\ Issued(ThisCall, Apply) => \A r \in Responses(ThisCall, Push) : Saved(r)
        /\ firewall_policy_states' # firewall_policy_states =>
              /\ Ops(ThisCall) = << Lookup, Push, Apply >>
              /\ \A r \in Responses(ThisCall, Apply) : Reconfigured(r)
              /\ ThisCall.exc = None

\* C21: the remote calls of one reconcile call are a prefix of resolve, push,
\* apply, each issued at most once; the push is issued only when the lookup
\* gave an identifier, the apply only when the push was answered "saved", and
\* the memory is written only in a call that issued all three, whose apply
\* was answered "ok" and which then returned without an exception.
C21_StrictPipeline == [][C21_Pipeline]_vars

\* a call that stopped after the push was refused, beside one that went
\* through and wrote the memory
C21_Witness ==
    /\ NumInstances = 2
    /\ last_call[1] # NoCall
    /\ last_call[2] # NoCall
    /\ Ops(last_call[1]) = << Lookup, Push >>
    /\ last_call[1].exc = None
    /\ Ops(last_call[2]) = << Lookup, Push, Apply >>
    /\ last_call[2].state_after = last_call[2].desired_state
    /\ last_call[2].current_state # last_call[2].desired_state

\* the periods of the two timers, in seconds
PolicyPeriod == 1 * SecondsPerMinute
ReportPeriod == 45 * SecondsPerMinute

\* the clock has been read and the policy timer looked at
TickDecides == pc = "tick" /\ pc' \in { "policy", "report_check" }

\* the report timer has been looked at
ReportDecides == pc = "report_check" /\ pc' \in { "report", "sleep" }

C22_RunsOnlyWhenDue ==
    /\ pc = "policy" => now - last_status_check_time >= PolicyPeriod
    /\ pc \in { "report", "report_send" } => now - last_report_send_time >= ReportPeriod

C22_TimerSteps ==
    /\ TickDecides =>
          /\ pc' = "policy" <=> now' - last_status_check_time >= PolicyPeriod
          /\ ticks = 0 => pc' = "policy"
    /\ ReportDecides =>
          /\ pc' = "report" <=> now - last_report_send_time >= ReportPeriod
          /\ ticks = 1 => pc' = "report"
    /\ last_status_check_time' # last_status_check_time =>
          /\ PolicyRunEnds
          /\ last_status_check_time' = now
          /\ last_report_send_time' = last_report_send_time
    /\ last_report_send_time' # last_report_send_time =>
          /\ ReportRunEnds
          /\ last_report_send_time' = now
          /\ last_status_check_time' = last_status_check_time

\* C22: in a tick the iteration of a timer runs if and only if the tick's
\* timestamp minus the timer's stamp is at least its period (one minute for
\* the policy timer, 45 minutes for the report timer); a stamp changes only
\* at the end of its own timer's run, to the timestamp of that tick, so two
\* runs of a timer are at least a period apart and no run touches the other
\* timer's stamp; in the first tick both timers run.
C22_IndependentTimers == []C22_RunsOnlyWhenDue /\ [][C22_TimerSteps]_vars

\* the second tick, a minute after the first: the policy timer has run
\* again, the report timer has not
C22_Witness ==
    /\ ticks = 2
    /\ pc = "sleep"
    /\ last_status_check_time = now
    /\ now - last_report_send_time = SecondsPerMinute

-----------------------------------------------------------------------------
(* The two variants of main(): the process runs one of them *)

PolicyPositions == { "tick", "policy", "report_check", "report", "report_send", "sleep" }
MonitorPositions == { "cycle", "poll", "alert", "cycle_sleep", "except" }

VariantsInit == Init \/ MonitorInit

\* an interrupt is taken by the except clause of the loop that is running
NextVariants ==
    \/ Tick
    \/ PolicyInstance
    \/ PolicyDone
    \/ ReportCheck
    \/ ReportCollect
    \/ ReportSend
    \/ ReportDone
    \/ Sleep
    \/ pc \in PolicyPositions /\ KeyboardInterrupt
    \/ CycleStart
    \/ CheckHealth
    \/ SendAlert
    \/ AllClear
    \/ CycleSleep
    \/ ExceptException
    \/ pc \in MonitorPositions /\ MonitorInterrupt

SpecVariants == VariantsInit /\ [][NextVariants]_vars

\* critical-error messages among the sends
CriticalSends == { i \in 1..Len(sends) : sends[i].message.kind = "critical" }

C23_TopLevelHandlers ==
    \* the monitoring loop is left for the handler or by an interrupt only
    /\ pc \in MonitorPositions \ { "except" } /\ pc' = "done" => stopped_by' = "KeyboardInterrupt"
    \* the handler hands one critical message to the notifier and main ends
    /\ pc = "except" =>
          /\ CriticalSends = {}
          /\ pc' = "done"
          /\ stopped_by' # "KeyboardInterrupt"
          /\ Len(sends') = Len(sends) + 1
          /\ SubSeq(sends', 1, Len(sends)) = sends
          /\ sends'[Len(sends')].message.kind = "critical"
    \* an exception in the policy loop ends it, with no send and no write
    /\ pc \in PolicyPositions /\ stopped_by' = "Exception" =>
          /\ pc' = "done"
          /\ sends' = sends
          /\ firewall_policy_states' = firewall_policy_states
    \* an exception of a reconcile call reaches the handler
    /\ PolicyStep /\ ThisCall.exc \notin { None, "KeyboardInterrupt" } =>
          pc' = "done" /\ stopped_by' = "Exception"
    \* after the handler nothing happens
    /\ pc # "done"

\* C23: an exception raised in a tick reaches the handler at the top level.
\* In the monitoring variant the handler hands exactly one critical-error
\* message to the notifier and the loop is over; in the policy variant the
\* loop is over with no message sent and no write to the memory; in both,
\* no step follows.
C23_ExceptionEndsTheLoop == [][C23_TopLevelHandlers]_vars

\* the monitoring loop has ended on an exception, its critical message sent
C23_Witness ==
    /\ pc = "done"
    /\ stopped_by = "Exception"
    /\ Cardinality(CriticalSends) = 1
    /\ Len(sends) \in CriticalSends

-----------------------------------------------------------------------------
(* The memory and the alias content on the appliance *)

\* the content lists a call has pushed with the answer "saved"
SavedContents(t) ==
    { t.calls[k].content :
        k \in { j \in 1..Len(t.calls) : t.calls[j].op = Push /\ Saved(t.calls[j].response) } }

\* the content list configured for a policy state
ContentFor(state) == IF state = ALLOWED THEN ALLOWED_CONTENT ELSE BLOCKED_CONTENT

\* the memory entry of the instance, where there is one, is the state whose
\* content list the call has pushed
AgreesWith(entry, t) ==
    entry # None => \A content \in SavedContents(t) : content = ContentFor(entry)

\* C24 as stated: whenever the memory records a state for an instance, the
\* content most recently pushed to it with success is the list configured
\* for that state: after each call of the instance that pushed, and after a
\* call that issued nothing and follows one that pushed.
C24_MemoryAgreesWithAppliance ==
    /\ [](\A i \in 1..NumInstances :
             last_call[i] # NoCall => AgreesWith(Entry(BaseUrlOf(i)), last_call[i]))
    /\ [][(PolicyStep /\ PreviousCall # NoCall /\ NoOp(ThisCall))
            => AgreesWith(ThisCall.state_after, PreviousCall)]_vars

-----------------------------------------------------------------------------
(* The memory entries a reconcile call reads and writes *)

\* the memory entry of a base URL after the step
EntryAfter(url) ==
    IF url \in DOMAIN firewall_policy_states' THEN firewall_policy_states'[url] ELSE None

ConfiguredBaseUrls == { BaseUrlOf(i) : i \in 1..NumInstances }

C25_OwnEntryOnly ==
    PolicyStep =>
        /\ ThisCall.current_state = Entry(BaseUrlOf(idx))
        /\ ThisCall.state_after = EntryAfter(BaseUrlOf(idx))
        /\ \A url \in (DOMAIN firewall_policy_states \cup DOMAIN firewall_policy_states') :
              url # BaseUrlOf(idx) =>
                  /\ url \in DOMAIN firewall_policy_states
                  /\ url \in DOMAIN firewall_policy_states'
                  /\ firewall_policy_states'[url] = firewall_policy_states[url]

\* C25: a reconcile call reads and writes the memory entry under the base
\* URL of its instance (the configured URL without its trailing slashes) and
\* leaves every other entry as it is; the memory has entries under the base
\* URLs of the configured instances only, so instances with different base
\* URLs have an entry each and instances with the same base URL have one
\* entry between them.
C25_EntryPerBaseUrl ==
    /\ [](DOMAIN firewall_policy_states \subseteq ConfiguredBaseUrls)
    /\ [][C25_OwnEntryOnly]_vars

\* two instances whose URLs differ in a trailing slash: the first has written
\* the entry, the second has read it and found nothing to do
C25_Witness ==
    /\ NumInstances = 2
    /\ OPNSENSE_INSTANCES[1].url # OPNSENSE_INSTANCES[2].url
    /\ BaseUrlOf(1) = BaseUrlOf(2)
    /\ DOMAIN firewall_policy_states = { BaseUrlOf(1) }
    /\ last_call[1] # NoCall
    /\ last_call[2] # NoCall
    /\ ApplyConfirmed(last_call[1])
    /\ NoOp(last_call[2])
    /\ last_call[2].current_state = last_call[1].desired_state

-----------------------------------------------------------------------------
(* Convergence of the policy reconciler *)

\* every remote call the call issued was answered with success
CallSucceeded(t, alias_name) ==
    /\ t.exc = None
    /\ \A k \in 1..Len(t.calls) :
          /\ t.calls[k].op = Lookup => GaveIdentifier(t.calls[k].response, alias_name)
          /\ t.calls[k].op = Push => Saved(t.calls[k].response)
          /\ t.calls[k].op = Apply => Reconfigured(t.calls[k].response)

\* the last call for instance i of the loop that ticks without end
Succeeds(i) ==
    last_call[i] # NoCall /\ CallSucceeded(last_call[i], LiveInstances[i].alias_name)

\* the memory entry of instance i is the desired state and its last call
\* issued nothing
Settled(i) ==
    /\ Entry(LiveInstances[i].url.stem) = desired_policy_state
    /\ last_call[i] # NoCall
    /\ NoOp(last_call[i])

\* C26: a call that finds the memory entry equal to the desired state issues
\* no remote call. And if the loop is never left, the desired state is the
\* same from some tick on and from some point on the calls for an instance
\* succeed, then from some point on the memory entry of the instance is the
\* desired state and its calls issue nothing.
C26_Convergence ==
    /\ [][(PolicyStep /\ Entry(BaseUrlOf(idx)) = desired_policy_state) => NoOp(ThisCall)]_vars
    /\ \A i \in 1..Len(LiveInstances) :
          (/\ [](pc # "done")
           /\ <>[][desired_policy_state' = desired_policy_state]_vars
           /\ <>[]Succeeds(i))
             => <>[]Settled(i)

\* the second instance has settled in the blocked state, which it was not in
\* before, while the last call of the first instance failed
C26_Witness ==
    /\ Settled(2)
    /\ desired_policy_state = BLOCKED
    /\ << BaseUrlOf(2), ALLOWED >> \in applied
    /\ last_call[1] # NoCall
    /\ ~CallSucceeded(last_call[1], LiveInstances[1].alias_name)

====
